---------------------------- MODULE Spec2Model ----------------------------
(***************************************************************************)
(* secure-finality-tools: the "secure finalized" stage layered on a        *)
(* chain's native finality.                                                *)
(*                                                                         *)
(*   - signAndSendSecure  (packages/secure-finality/src/index.ts): the     *)
(*     status callback wrapped around signAndSend, which fans every status *)
(*     out to the user callback and, on a Finalized status without a       *)
(*     system.ExtrinsicFailed event, waits for the watermark and calls the *)
(*     user callback once more with isSecureFinalized = true.              *)
(*   - waitForSecureUpTo  (waitForSecureUpTo.ts): a promise resolved by    *)
(*     the first secureUpTo notification whose value is finite and at      *)
(*     least the target.                                                   *)
(*   - the advance loop   (advance-secure-up-to.mjs): a fixed-interval     *)
(*     loop that reads the finalized height and the watermark and sudo-    *)
(*     calls noteAnchorVerified(finalized) when finalized > watermark.     *)
(*                                                                         *)
(* The chain (polkadot.js ApiPromise) is the environment.  Its storage     *)
(* subscription delivers the current value as the first notification once  *)
(* the subscription is established, and one notification per later change. *)
(* Its status subscription delivers statuses in chain order, Finalized     *)
(* being the last.                                                         *)
(***************************************************************************)
EXTENDS Integers, Sequences, FiniteSets, TLC

\* ------------------------------------------------------------------ bounds

\* Block numbers range over 0..MaxBlock.
MaxBlock == 2

\* How many times the environment changes the watermark during one tracked
\* transaction.
MaxChanges == 1

\* ------------------------------------------------------- values on the wire

Blocks == 0..MaxBlock

\* What a secureUpTo notification (or read) hands to the callback: a codec
\* object with a toNumber method, null or undefined.
U32(v) == [kind |-> "u32", v |-> v]

Null == [kind |-> "null", v |-> 0]

Undefined == [kind |-> "undefined", v |-> 0]

RawValues == {U32(v) : v \in Blocks} \cup {Null, Undefined}

\* A JavaScript number: NaN or an integer.
NaN == [nan |-> TRUE, n |-> 0]

Num(i) == [nan |-> FALSE, n |-> i]

\* upTo?.toNumber ? upTo.toNumber() : Number(upTo)
\* Number(null) is 0, Number(undefined) is NaN.
ToNumber(upTo) ==
    IF upTo.kind = "u32" THEN Num(upTo.v)
    ELSE IF upTo.kind = "null" THEN Num(0)
    ELSE NaN

\* Number.isFinite(n) && n >= targetBlock
ReachedMutNoTarget(n, targetBlock) ==
    ~n.nan

ReachedMutStrict(n, targetBlock) ==
    ~n.nan /\ n.n > targetBlock

Reached(n, targetBlock) ==
    ~n.nan /\ n.n >= targetBlock

\* The events a status notification carries: a set of section.method pairs,
\* or no events field at all.
Ev(s, m) == [section |-> s, method |-> m]

EventUniverse ==
    { Ev("system", "ExtrinsicSuccess"),
      Ev("system", "ExtrinsicFailed"),
      Ev("balances", "ExtrinsicFailed") }

Events(list) == [defined |-> TRUE, list |-> list]

NoEvents == [defined |-> FALSE, list |-> {}]

EventFields == {Events(l) : l \in SUBSET EventUniverse} \cup {NoEvents}

\* result.events || []
EventsOrEmpty(events) ==
    IF events.defined THEN events.list ELSE {}

\* (result.events || []).some(({event}) =>
\*     event.section === "system" && event.method === "ExtrinsicFailed")
FailedMutWrongSection(events) ==
    \E e \in EventsOrEmpty(events) :
        e.section = "System" /\ e.method = "ExtrinsicFailed"

Failed(events) ==
    \E e \in EventsOrEmpty(events) :
        e.section = "system" /\ e.method = "ExtrinsicFailed"

\* The statuses of one transaction, in chain order.
Stages == <<"Ready", "Broadcast", "InBlock", "Finalized">>

None == -1

VARIABLES
    \* ---- the chain
    secureUpTo,     \* the anchor.secureUpTo storage value (raw)
    changes,        \* how many times the environment has changed it
    \* ---- signAndSendSecure
    txStage,        \* index of the last status delivered (0: none yet)
    txSubscribed,   \* the signAndSend status subscription is active
    unsubCalled,    \* the caller has invoked the returned unsub handle
    finEvents,      \* result.events of the Finalized notification
    finHeaderNo,    \* number of the header of the Finalized block
    hPc,            \* where the Finalized invocation of the wrapper stands
    includedAt,     \* the wrapper's local includedAt
    emitted,        \* the user callback's invocations, in order
    \* ---- waitForSecureUpTo
    wPc,            \* "idle" | "subscribing" | "subscribed" | "failed"
    targetBlock,    \* its targetBlock argument
    wSub,           \* its secureUpTo subscription is active
    wQueue,         \* notifications delivered by the chain, not yet handled
    wSeen,          \* the raw values its callback has been called with
    wFuture,        \* "none" | "pending" | "resolved" | "rejected"
    unsubAfterWait, \* history: unsub was invoked after the wait had begun
    \* ---- the chain, as the advance loop sees it
    finalizedHead,  \* number of the finalized head
    loopWrites,     \* history: how many of the loop's calls changed secureUpTo
    \* ---- advance-secure-up-to.mjs
    envDryRun,      \* process.env.DRY_RUN
    inFlight,       \* let inFlight
    stop,           \* let stop
    pc,             \* where main's loop stands
    ticks,          \* history: how many ticks have started
    skips,          \* history: how often the `if (inFlight)` branch was taken
    finalized,      \* the tick's local finalized
    currentUp,      \* the tick's local currentUp
    gotFin,         \* getFinalizedNumber has resolved in this tick
    gotUp,          \* getSecureUpTo has resolved in this tick
    thrown,         \* a promise the tick awaits has rejected
    attempts,       \* the sendSudoAdvance calls made, in order
    sig,            \* the SIGINT handler: "none" | "grace" | "exited"
    \* ---- the process of a script
    exitCode        \* the code process.exit was called with (None: running)

tvars == <<txStage, txSubscribed, unsubCalled, finEvents, finHeaderNo, hPc,
           includedAt, emitted>>

wvars == <<wPc, targetBlock, wSub, wQueue, wSeen, wFuture, unsubAfterWait>>

cvars == <<secureUpTo, changes>>

avars == <<finalizedHead, loopWrites, envDryRun, inFlight, stop, pc, ticks,
           skips, finalized, currentUp, gotFin, gotUp, thrown, attempts, sig,
           exitCode>>

vars == <<cvars, tvars, wvars, avars>>

\* ------------------------------------------------------------ the chain

\* The environment changes anchor.secureUpTo (nothing makes it monotonic);
\* every active subscription is notified of the new value.
WatermarkChange ==
    /\ changes < MaxChanges
    /\ \E r \in RawValues \ {secureUpTo} :
          /\ secureUpTo' = r
          /\ wQueue' = IF wSub THEN Append(wQueue, r) ELSE wQueue
    /\ changes' = changes + 1
    /\ UNCHANGED avars
    /\ UNCHANGED <<tvars, wPc, targetBlock, wSub, wSeen, wFuture, unsubAfterWait>>

\* ---------------------------------------------------- signAndSendSecure

\* What the user callback is called with.
Result(status, secure, at) ==
    [status |-> status, isSecureFinalized |-> secure, secureFinalizedAt |-> at]

\* { ...result, isSecureFinalized: true, secureFinalizedAt: includedAt }
SyntheticMutWatermark(result, at) ==
    [result EXCEPT !.isSecureFinalized = TRUE,
                   !.secureFinalizedAt = ToNumber(secureUpTo).n]

Synthetic(result, at) ==
    [result EXCEPT !.isSecureFinalized = TRUE, !.secureFinalizedAt = at]

\* header.number.toNumber() of the header getHeader returns
HeaderNumber(header) == header.number

\* The status callback is invoked with the next status of the transaction:
\* `if (cb) await cb(result)` calls the user callback at once.  Finalized is
\* the last status of the stream.
StatusNotify ==
    /\ txSubscribed
    /\ \E i \in (txStage + 1)..Len(Stages) :
          /\ txStage' = i
          /\ emitted' = Append(emitted, Result(Stages[i], FALSE, None))
          /\ IF Stages[i] = "Finalized"
                THEN /\ \E ev \in EventFields : finEvents' = ev
                     /\ \E b \in Blocks : finHeaderNo' = b
                     /\ txSubscribed' = FALSE
                     /\ hPc' = "cbAwait"
                ELSE UNCHANGED <<finEvents, finHeaderNo, txSubscribed, hPc>>
    /\ UNCHANGED avars
    /\ UNCHANGED <<cvars, wvars, unsubCalled, includedAt>>

\* `await cb(result)` returns for the Finalized status; then
\* `if (failed) return;`
UserCbReturnsMutNoReturn ==
    /\ hPc = "cbAwait"
    /\ hPc' = "getHeader"
    /\ UNCHANGED avars
    /\ UNCHANGED <<cvars, wvars, txStage, txSubscribed, unsubCalled, finEvents,
                   finHeaderNo, includedAt, emitted>>

UserCbReturns ==
    /\ hPc = "cbAwait"
    /\ hPc' = IF Failed(finEvents) THEN "returned" ELSE "getHeader"
    /\ UNCHANGED avars
    /\ UNCHANGED <<cvars, wvars, txStage, txSubscribed, unsubCalled, finEvents,
                   finHeaderNo, includedAt, emitted>>

\* The user callback throws (or its promise rejects) on the Finalized status.
UserCbThrows ==
    /\ hPc = "cbAwait"
    /\ hPc' = "cbThrew"
    /\ UNCHANGED avars
    /\ UNCHANGED <<cvars, wvars, txStage, txSubscribed, unsubCalled, finEvents,
                   finHeaderNo, includedAt, emitted>>

\* getHeader resolves: includedAt is set and waitForSecureUpTo is called,
\* whose executor calls palletAnchor.secureUpTo(callback) at once.
GetHeaderReturns ==
    /\ hPc = "getHeader"
    /\ includedAt' = HeaderNumber([number |-> finHeaderNo])
    /\ targetBlock' = includedAt'
    /\ wPc' = "subscribing"
    /\ wFuture' = "pending"
    /\ hPc' = "awaitSecure"
    /\ UNCHANGED avars
    /\ UNCHANGED <<cvars, txStage, txSubscribed, unsubCalled, finEvents,
                   finHeaderNo, emitted, wSub, wQueue, wSeen, unsubAfterWait>>

\* getHeader rejects (the block is unknown, the transport fails).
GetHeaderThrows ==
    /\ hPc = "getHeader"
    /\ hPc' = "rejected"
    /\ UNCHANGED avars
    /\ UNCHANGED <<cvars, wvars, txStage, txSubscribed, unsubCalled, finEvents,
                   finHeaderNo, includedAt, emitted>>

\* `await waitForSecureUpTo(...)` resumes after the promise resolved: the one
\* synthetic callback.
WrapperResumes ==
    /\ hPc = "awaitSecure"
    /\ wFuture = "resolved"
    /\ emitted' = Append(emitted,
                         Synthetic(Result("Finalized", FALSE, None), includedAt))
    /\ hPc' = "done"
    /\ UNCHANGED avars
    /\ UNCHANGED <<cvars, wvars, txStage, txSubscribed, unsubCalled, finEvents,
                   finHeaderNo, includedAt>>

\* `await waitForSecureUpTo(...)` throws after the promise rejected.
WrapperRejected ==
    /\ hPc = "awaitSecure"
    /\ wFuture = "rejected"
    /\ hPc' = "rejected"
    /\ UNCHANGED avars
    /\ UNCHANGED <<cvars, wvars, txStage, txSubscribed, unsubCalled, finEvents,
                   finHeaderNo, includedAt, emitted>>

\* The caller invokes the handle signAndSendSecure returned: the unsub of the
\* underlying signAndSend subscription, and nothing else.
CallerUnsubMutCancelsWait ==
    /\ ~unsubCalled
    /\ unsubCalled' = TRUE
    /\ txSubscribed' = FALSE
    /\ unsubAfterWait' = (wFuture # "none")
    /\ wSub' = FALSE
    /\ wQueue' = <<>>
    /\ UNCHANGED avars
    /\ UNCHANGED <<cvars, txStage, finEvents, finHeaderNo, hPc, includedAt,
                   emitted, wPc, targetBlock, wSeen, wFuture>>

CallerUnsub ==
    /\ ~unsubCalled
    /\ unsubCalled' = TRUE
    /\ txSubscribed' = FALSE
    /\ unsubAfterWait' = (wFuture # "none")
    /\ UNCHANGED avars
    /\ UNCHANGED <<cvars, txStage, finEvents, finHeaderNo, hPc, includedAt,
                   emitted, wPc, targetBlock, wSub, wQueue, wSeen, wFuture>>

\* ---------------------------------------------------- waitForSecureUpTo

\* `await palletAnchor.secureUpTo(callback)` resolves: unsub is assigned and
\* the chain queues the current value as the first notification.
SubscribeEstablished ==
    /\ wPc = "subscribing"
    /\ wPc' = "subscribed"
    /\ wSub' = TRUE
    /\ wQueue' = <<secureUpTo>>
    /\ UNCHANGED avars
    /\ UNCHANGED <<cvars, tvars, targetBlock, wSeen, wFuture, unsubAfterWait>>

\* `await palletAnchor.secureUpTo(callback)` throws: catch (e) { reject(e) }
SubscribeThrowsMutResolves ==
    /\ wPc = "subscribing"
    /\ wPc' = "failed"
    /\ wFuture' = "resolved"
    /\ UNCHANGED avars
    /\ UNCHANGED <<cvars, tvars, targetBlock, wSub, wQueue, wSeen, unsubAfterWait>>

SubscribeThrows ==
    /\ wPc = "subscribing"
    /\ wPc' = "failed"
    /\ wFuture' = "rejected"
    /\ UNCHANGED avars
    /\ UNCHANGED <<cvars, tvars, targetBlock, wSub, wQueue, wSeen, unsubAfterWait>>

\* The subscription callback runs on the next queued notification:
\*   const n = ...;
\*   if (Number.isFinite(n) && n >= targetBlock) { unsub(); resolve(); }
SecureUpToNotifyMutNoUnsub ==
    /\ wSub
    /\ wQueue # <<>>
    /\ LET upTo == Head(wQueue)
           n == ToNumber(upTo)
       IN /\ wSeen' = Append(wSeen, upTo)
          /\ wQueue' = Tail(wQueue)
          /\ wFuture' = IF Reached(n, targetBlock) /\ wFuture = "pending"
                           THEN "resolved" ELSE wFuture
          /\ UNCHANGED wSub
    /\ UNCHANGED avars
    /\ UNCHANGED <<cvars, tvars, wPc, targetBlock, unsubAfterWait>>

SecureUpToNotify ==
    /\ wSub
    /\ wQueue # <<>>
    /\ LET upTo == Head(wQueue)
           n == ToNumber(upTo)
       IN /\ wSeen' = Append(wSeen, upTo)
          /\ IF Reached(n, targetBlock)
                THEN /\ wSub' = FALSE
                     /\ wQueue' = <<>>
                     /\ wFuture' = IF wFuture = "pending" THEN "resolved" ELSE wFuture
                ELSE /\ wQueue' = Tail(wQueue)
                     /\ UNCHANGED <<wSub, wFuture>>
    /\ UNCHANGED avars
    /\ UNCHANGED <<cvars, tvars, wPc, targetBlock, unsubAfterWait>>

\* ------------------------------------------------------- specification

\* The advance loop is not running.
AdvancerIdle ==
    /\ finalizedHead = 0
    /\ loopWrites = 0
    /\ envDryRun = "unset"
    /\ inFlight = FALSE
    /\ stop = FALSE
    /\ pc = "loopTop"
    /\ ticks = 0
    /\ skips = 0
    /\ finalized = None
    /\ currentUp = NaN
    /\ gotFin = FALSE
    /\ gotUp = FALSE
    /\ thrown = FALSE
    /\ attempts = <<>>
    /\ sig = "none"
    /\ exitCode = None

\* signAndSend has resolved; no status has been delivered yet.
TrackerInit ==
    /\ changes = 0
    /\ txStage = 0
    /\ txSubscribed = TRUE
    /\ unsubCalled = FALSE
    /\ finEvents = NoEvents
    /\ finHeaderNo = None
    /\ hPc = "idle"
    /\ includedAt = None
    /\ emitted = <<>>
    /\ wPc = "idle"
    /\ targetBlock = None
    /\ wSub = FALSE
    /\ wQueue = <<>>
    /\ wSeen = <<>>
    /\ wFuture = "none"
    /\ unsubAfterWait = FALSE

Init ==
    /\ AdvancerIdle
    /\ secureUpTo \in RawValues
    /\ TrackerInit

Next ==
    \/ WatermarkChange
    \/ StatusNotify
    \/ UserCbReturns
    \/ UserCbThrows
    \/ GetHeaderReturns
    \/ GetHeaderThrows
    \/ WrapperResumes
    \/ WrapperRejected
    \/ CallerUnsub
    \/ SubscribeEstablished
    \/ SubscribeThrows
    \/ SecureUpToNotify

Spec == Init /\ [][Next]_vars

\* The event loop runs every queued notification and every continuation of a
\* settled promise.
FairSpec ==
    /\ Spec
    /\ WF_vars(SecureUpToNotify)
    /\ WF_vars(WrapperResumes)

\* ------------------------------------------------- properties: the tracker

\* The Finalized notification carries the dispatch-failure marker.
HasFailureMarker(events) ==
    events.defined /\ Ev("system", "ExtrinsicFailed") \in events.list

\* A notification carries a finite value that is at least t (null reads as 0,
\* undefined as NaN).
CarriesAtLeast(upTo, t) ==
    \/ upTo.kind = "u32" /\ upTo.v >= t
    \/ upTo.kind = "null" /\ 0 >= t

\* The invocations of the user callback that are synthetic.
SecureIdx == {i \in DOMAIN emitted : emitted[i].isSecureFinalized}

EndsWithOneSecure ==
    /\ Cardinality(SecureIdx) = 1
    /\ Len(emitted) \in SecureIdx
    /\ emitted[Len(emitted)].secureFinalizedAt = finHeaderNo

FinalizedOk == txStage = Len(Stages) /\ ~HasFailureMarker(finEvents)

C2_NoSecureAfterFailure ==
    (txStage = Len(Stages) /\ HasFailureMarker(finEvents))
        => /\ SecureIdx = {}
           /\ wPc = "idle"
           /\ wFuture = "none"
           /\ ~wSub
           /\ wSeen = <<>>

C2_Witness ==
    /\ HasFailureMarker(finEvents)
    /\ hPc = "returned"
    /\ changes >= 1
    /\ CarriesAtLeast(secureUpTo, finHeaderNo)

\* C3: the future of waitForSecureUpTo is resolved only if some notification
\* its callback has handled carried a finite value at least the target.
C3_ResolvedOnlyAtTarget ==
    wFuture = "resolved"
        => \E i \in DOMAIN wSeen : CarriesAtLeast(wSeen[i], targetBlock)

C3_Witness ==
    /\ wFuture = "resolved"
    /\ Len(wSeen) = 2
    /\ ~CarriesAtLeast(wSeen[1], targetBlock)

\* C4: when the first notification handled carries a value at least the
\* target, the future is resolved by it: no second notification is handled
\* and the subscription has ended.
C4_FirstNotificationResolves ==
    (wSeen # <<>> /\ CarriesAtLeast(wSeen[1], targetBlock))
        => /\ wFuture = "resolved"
           /\ Len(wSeen) = 1
           /\ ~wSub

\* Scenario B, scaled to the model's block numbers: the inclusion block is
\* below the watermark at subscribe time, the watermark never changes, and
\* SecureFinalized{inclusion block} is emitted.
C4_Witness ==
    /\ changes = 0
    /\ targetBlock >= 1
    /\ wSeen = <<secureUpTo>>
    /\ secureUpTo.kind = "u32" /\ secureUpTo.v > targetBlock
    /\ hPc = "done"
    /\ emitted[Len(emitted)] = Result("Finalized", TRUE, targetBlock)

\* C10: when the caller has invoked the unsub handle after the wait began and
\* the watermark is at least the inclusion block, SecureFinalized is
\* eventually emitted.
C10_UnsubKeepsSecureWait ==
    (unsubAfterWait /\ wPc = "subscribed" /\ CarriesAtLeast(secureUpTo, targetBlock))
        ~> (SecureIdx # {})

C10_Witness ==
    /\ unsubAfterWait
    /\ Len(wSeen) = 2
    /\ hPc = "done"
    /\ EndsWithOneSecure

\* ------------------------------------------------ advance-secure-up-to.mjs

\* How many ticks the loop starts.
MaxTicks == 2

\* The values of process.env.DRY_RUN.
EnvValues == {"unset", "0", "1"}

\* const DRY_RUN = process.env.DRY_RUN === "1"
DryRunMutTrue(env) == env = "true"

DryRun(env) == env = "1"

\* getSecureUpTo: up?.toNumber ? up.toNumber() : Number(up)
GetSecureUpTo(up) == ToNumber(up)

\* const need = finalized > currentUp   (a comparison with NaN is false)
NeedMutGeq(f, up) == ~up.nan /\ f >= up.n

Need(f, up) == ~up.nan /\ f > up.n

\* events?.some(({event}) =>
\*     event.section === "system" && event.method === "ExtrinsicFailed")
SudoFailed(events) ==
    events.defined
    /\ \E e \in events.list : e.section = "system" /\ e.method = "ExtrinsicFailed"

\* The process runs until the SIGINT handler calls process.exit.
Alive == sig # "exited"

\* One call of sendSudoAdvance(api, sender, targetBlock), made in tick `tick`:
\*   stage     the last status its callback was called with (0: none)
\*   sub       "submitting" (signAndSend pending) | "watching" | "closed"
\*   outcome   of the promise it returned
\*   dispatch  what the chain did with the extrinsic once in a block:
\*             "ok" (secureUpTo set), "failed" (system.ExtrinsicFailed),
\*             "sudoErr" (sudo ran, the inner call changed nothing)
Attempt(target, tick) ==
    [target |-> target, tick |-> tick, stage |-> 0, sub |-> "submitting",
     outcome |-> "pending", dispatch |-> "none"]

Dispatches == {"ok", "failed", "sudoErr"}

\* The events of the Finalized notification of a sudo extrinsic.
FinalizedEvents(dispatch) ==
    IF dispatch = "failed"
      THEN Events({Ev("system", "ExtrinsicFailed")})
      ELSE Events({Ev("system", "ExtrinsicSuccess")})

LastAttempt == attempts[Len(attempts)]

\* A promise the tick awaits has rejected and the tick has not caught it yet.
TickFailed ==
    \/ thrown
    \/ pc = "awaitSudo" /\ attempts # <<>> /\ LastAttempt.outcome = "rejected"

\* while (!stop) { try { if (inFlight) { await sleep(200); continue; }
\*                       inFlight = true; ...
\* `continue` inside try runs the finally block.
LoopTopUpToMutIgnoresStop(maxTicks) ==
    /\ Alive
    /\ pc = "loopTop"
    /\ IF inFlight
         THEN /\ skips' = skips + 1
              /\ inFlight' = FALSE
              /\ pc' = "interval"
              /\ UNCHANGED <<ticks, gotFin, gotUp>>
         ELSE /\ ticks < maxTicks
              /\ inFlight' = TRUE
              /\ ticks' = ticks + 1
              /\ gotFin' = FALSE
              /\ gotUp' = FALSE
              /\ pc' = "reading"
              /\ UNCHANGED skips
    /\ UNCHANGED <<cvars, tvars, wvars>>
    /\ UNCHANGED <<finalizedHead, loopWrites, envDryRun, stop, finalized,
                   currentUp, thrown, attempts, sig, exitCode>>

LoopTopUpTo(maxTicks) ==
    /\ Alive
    /\ pc = "loopTop"
    /\ IF stop
         THEN /\ pc' = "returned"
              /\ UNCHANGED <<inFlight, ticks, skips, gotFin, gotUp>>
         ELSE IF inFlight
                THEN /\ skips' = skips + 1
                     /\ inFlight' = FALSE
                     /\ pc' = "interval"
                     /\ UNCHANGED <<ticks, gotFin, gotUp>>
                ELSE /\ ticks < maxTicks
                     /\ inFlight' = TRUE
                     /\ ticks' = ticks + 1
                     /\ gotFin' = FALSE
                     /\ gotUp' = FALSE
                     /\ pc' = "reading"
                     /\ UNCHANGED skips
    /\ UNCHANGED <<cvars, tvars, wvars>>
    /\ UNCHANGED <<finalizedHead, loopWrites, envDryRun, stop, finalized,
                   currentUp, thrown, attempts, sig, exitCode>>

LoopTop == LoopTopUpTo(MaxTicks)

\* getFinalizedNumber(api) resolves; the finalized head is h.
ReadFinalizedAt(h) ==
    /\ Alive
    /\ pc = "reading"
    /\ ~gotFin
    /\ ~thrown
    /\ finalizedHead' = h
    /\ finalized' = h
    /\ gotFin' = TRUE
    /\ UNCHANGED <<cvars, tvars, wvars>>
    /\ UNCHANGED <<loopWrites, envDryRun, inFlight, stop, pc, ticks, skips,
                   currentUp, gotUp, thrown, attempts, sig, exitCode>>

ReadFinalized == ReadFinalizedAt(finalizedHead)

\* getSecureUpTo(api, api.query[PALLET]) resolves.
ReadSecureUpTo ==
    /\ Alive
    /\ pc = "reading"
    /\ ~gotUp
    /\ ~thrown
    /\ currentUp' = GetSecureUpTo(secureUpTo)
    /\ gotUp' = TRUE
    /\ UNCHANGED <<cvars, tvars, wvars>>
    /\ UNCHANGED <<finalizedHead, loopWrites, envDryRun, inFlight, stop, pc,
                   ticks, skips, finalized, gotFin, thrown, attempts, sig, exitCode>>

\* One of the tick's reads rejects: Promise.all of the two reads, or the
\* read after a successful advance.
ReadRejects ==
    /\ Alive
    /\ ~thrown
    /\ \/ pc = "reading" /\ ~(gotFin /\ gotUp)
       \/ pc = "verify"
    /\ thrown' = TRUE
    /\ UNCHANGED <<cvars, tvars, wvars>>
    /\ UNCHANGED <<finalizedHead, loopWrites, envDryRun, inFlight, stop, pc,
                   ticks, skips, finalized, currentUp, gotFin, gotUp, attempts,
                   sig, exitCode>>

\* Promise.all has resolved:
\*   const need = finalized > currentUp;
\*   if (need) { if (DRY_RUN) log; else { await sendSudoAdvance(...); ... } }
\* and, when nothing is awaited, the finally block (inFlight = false).
TickDecideMutNoAwait ==
    /\ Alive
    /\ pc = "reading"
    /\ gotFin /\ gotUp /\ ~thrown
    /\ IF Need(finalized, currentUp) /\ ~DryRun(envDryRun)
         THEN attempts' = Append(attempts, Attempt(finalized, ticks))
         ELSE UNCHANGED attempts
    /\ pc' = "interval"
    /\ inFlight' = FALSE
    /\ UNCHANGED <<cvars, tvars, wvars>>
    /\ UNCHANGED <<finalizedHead, loopWrites, envDryRun, stop, ticks, skips,
                   finalized, currentUp, gotFin, gotUp, thrown, sig, exitCode>>

TickDecideMutTargetsNext ==
    /\ Alive
    /\ pc = "reading"
    /\ gotFin /\ gotUp /\ ~thrown
    /\ IF Need(finalized, currentUp) /\ ~DryRun(envDryRun)
         THEN /\ attempts' = Append(attempts, Attempt(currentUp.n + 1, ticks))
              /\ pc' = "awaitSudo"
              /\ UNCHANGED inFlight
         ELSE /\ pc' = "interval"
              /\ inFlight' = FALSE
              /\ UNCHANGED attempts
    /\ UNCHANGED <<cvars, tvars, wvars>>
    /\ UNCHANGED <<finalizedHead, loopWrites, envDryRun, stop, ticks, skips,
                   finalized, currentUp, gotFin, gotUp, thrown, sig, exitCode>>

TickDecide ==
    /\ Alive
    /\ pc = "reading"
    /\ gotFin /\ gotUp /\ ~thrown
    /\ IF Need(finalized, currentUp) /\ ~DryRun(envDryRun)
         THEN /\ attempts' = Append(attempts, Attempt(finalized, ticks))
              /\ pc' = "awaitSudo"
              /\ UNCHANGED inFlight
         ELSE /\ pc' = "interval"
              /\ inFlight' = FALSE
              /\ UNCHANGED attempts
    /\ UNCHANGED <<cvars, tvars, wvars>>
    /\ UNCHANGED <<finalizedHead, loopWrites, envDryRun, stop, ticks, skips,
                   finalized, currentUp, gotFin, gotUp, thrown, sig, exitCode>>

\* sendSudoAdvance: `const unsub = await sudoCall.signAndSend(...)` resolves.
SignAndSendResolves ==
    /\ Alive
    /\ \E i \in DOMAIN attempts :
          /\ attempts[i].sub = "submitting"
          /\ attempts' = [attempts EXCEPT ![i].sub = "watching"]
    /\ UNCHANGED <<cvars, tvars, wvars>>
    /\ UNCHANGED <<finalizedHead, loopWrites, envDryRun, inFlight, stop, pc,
                   ticks, skips, finalized, currentUp, gotFin, gotUp, thrown,
                   sig, exitCode>>

\* sendSudoAdvance: signAndSend throws: catch (e) { reject(e) }
SignAndSendRejects ==
    /\ Alive
    /\ \E i \in DOMAIN attempts :
          /\ attempts[i].sub = "submitting"
          /\ attempts' = [attempts EXCEPT ![i].sub = "closed",
                                          ![i].outcome = "rejected"]
    /\ UNCHANGED <<cvars, tvars, wvars>>
    /\ UNCHANGED <<finalizedHead, loopWrites, envDryRun, inFlight, stop, pc,
                   ticks, skips, finalized, currentUp, gotFin, gotUp, thrown,
                   sig, exitCode>>

\* sendSudoAdvance: the status callback runs with the next status.  The
\* extrinsic is dispatched when it enters a block; noteAnchorVerified(target)
\* sets secureUpTo to target when it succeeds.  On Finalized the callback
\* unsubscribes and settles the promise: reject when the events hold
\* system.ExtrinsicFailed, resolve otherwise.
SudoStatusMutSettlesInBlock ==
    /\ Alive
    /\ \E i \in DOMAIN attempts :
       \E s \in 1..Len(Stages) :
       \E d \in Dispatches :
          LET a == attempts[i]
              enters == a.stage < 3 /\ s >= 3
              disp == IF enters THEN d ELSE a.dispatch
              final == Stages[s] \in {"InBlock", "Finalized"}
          IN /\ a.sub = "watching"
             /\ s > a.stage
             /\ enters \/ d = "ok"
             /\ attempts' =
                  [attempts EXCEPT
                     ![i].stage = s,
                     ![i].dispatch = disp,
                     ![i].sub = IF final THEN "closed" ELSE "watching",
                     ![i].outcome =
                        IF ~final THEN a.outcome
                        ELSE IF SudoFailed(FinalizedEvents(disp)) THEN "rejected"
                        ELSE "resolved"]
             /\ IF enters /\ d = "ok"
                  THEN /\ secureUpTo' = U32(a.target)
                       /\ loopWrites' = loopWrites + 1
                  ELSE UNCHANGED <<secureUpTo, loopWrites>>
    /\ UNCHANGED <<changes, tvars, wvars>>
    /\ UNCHANGED <<finalizedHead, envDryRun, inFlight, stop, pc, ticks, skips,
                   finalized, currentUp, gotFin, gotUp, thrown, sig, exitCode>>

SudoStatus ==
    /\ Alive
    /\ \E i \in DOMAIN attempts :
       \E s \in 1..Len(Stages) :
       \E d \in Dispatches :
          LET a == attempts[i]
              enters == a.stage < 3 /\ s >= 3
              disp == IF enters THEN d ELSE a.dispatch
              final == Stages[s] = "Finalized"
          IN /\ a.sub = "watching"
             /\ s > a.stage
             /\ enters \/ d = "ok"
             /\ attempts' =
                  [attempts EXCEPT
                     ![i].stage = s,
                     ![i].dispatch = disp,
                     ![i].sub = IF final THEN "closed" ELSE "watching",
                     ![i].outcome =
                        IF ~final THEN a.outcome
                        ELSE IF SudoFailed(FinalizedEvents(disp)) THEN "rejected"
                        ELSE "resolved"]
             /\ IF enters /\ d = "ok"
                  THEN /\ secureUpTo' = U32(a.target)
                       /\ loopWrites' = loopWrites + 1
                  ELSE UNCHANGED <<secureUpTo, loopWrites>>
    /\ UNCHANGED <<changes, tvars, wvars>>
    /\ UNCHANGED <<finalizedHead, envDryRun, inFlight, stop, pc, ticks, skips,
                   finalized, currentUp, gotFin, gotUp, thrown, sig, exitCode>>

\* `await sendSudoAdvance(...)` resumes after the promise resolved.
SudoResolvedResume ==
    /\ Alive
    /\ pc = "awaitSudo"
    /\ LastAttempt.outcome = "resolved"
    /\ pc' = "verify"
    /\ UNCHANGED <<cvars, tvars, wvars>>
    /\ UNCHANGED <<finalizedHead, loopWrites, envDryRun, inFlight, stop, ticks,
                   skips, finalized, currentUp, gotFin, gotUp, thrown, attempts,
                   sig, exitCode>>

\* `const after = await getSecureUpTo(...)` resolves; then the finally block.
VerifyRead ==
    /\ Alive
    /\ pc = "verify"
    /\ ~thrown
    /\ pc' = "interval"
    /\ inFlight' = FALSE
    /\ UNCHANGED <<cvars, tvars, wvars>>
    /\ UNCHANGED <<finalizedHead, loopWrites, envDryRun, stop, ticks, skips,
                   finalized, currentUp, gotFin, gotUp, thrown, attempts, sig, exitCode>>

\* catch (e) { console.error(...); await sleep(1000); }
TickCatchMutFatal ==
    /\ Alive
    /\ TickFailed
    /\ thrown' = FALSE
    /\ pc' = "fatal"
    /\ sig' = "exited"
    /\ exitCode' = 1
    /\ UNCHANGED <<cvars, tvars, wvars>>
    /\ UNCHANGED <<finalizedHead, loopWrites, envDryRun, inFlight, stop, ticks,
                   skips, finalized, currentUp, gotFin, gotUp, attempts>>

TickCatch ==
    /\ Alive
    /\ TickFailed
    /\ thrown' = FALSE
    /\ pc' = "cooldown"
    /\ UNCHANGED <<cvars, tvars, wvars>>
    /\ UNCHANGED <<finalizedHead, loopWrites, envDryRun, inFlight, stop, ticks,
                   skips, finalized, currentUp, gotFin, gotUp, attempts, sig, exitCode>>

\* sleep(1000) of the catch block is over; finally { inFlight = false; ... }
CooldownDoneMutKeepsFlag ==
    /\ Alive
    /\ pc = "cooldown"
    /\ pc' = "interval"
    /\ UNCHANGED <<cvars, tvars, wvars>>
    /\ UNCHANGED <<finalizedHead, loopWrites, envDryRun, inFlight, stop, ticks,
                   skips, finalized, currentUp, gotFin, gotUp, thrown, attempts,
                   sig, exitCode>>

CooldownDone ==
    /\ Alive
    /\ pc = "cooldown"
    /\ inFlight' = FALSE
    /\ pc' = "interval"
    /\ UNCHANGED <<cvars, tvars, wvars>>
    /\ UNCHANGED <<finalizedHead, loopWrites, envDryRun, stop, ticks, skips,
                   finalized, currentUp, gotFin, gotUp, thrown, attempts, sig, exitCode>>

\* sleep(INTERVAL_SEC * 1000) of the finally block is over.
IntervalDone ==
    /\ Alive
    /\ pc = "interval"
    /\ pc' = "loopTop"
    /\ UNCHANGED <<cvars, tvars, wvars>>
    /\ UNCHANGED <<finalizedHead, loopWrites, envDryRun, inFlight, stop, ticks,
                   skips, finalized, currentUp, gotFin, gotUp, thrown, attempts,
                   sig, exitCode>>

\* The chain finalizes further blocks.
ChainFinalize ==
    /\ Alive
    /\ \E h \in Blocks : h > finalizedHead /\ finalizedHead' = h
    /\ UNCHANGED <<cvars, tvars, wvars>>
    /\ UNCHANGED <<loopWrites, envDryRun, inFlight, stop, pc, ticks, skips,
                   finalized, currentUp, gotFin, gotUp, thrown, attempts, sig, exitCode>>

\* process.on("SIGINT", ...): stop = true; await sleep(200)
Sigint ==
    /\ sig = "none"
    /\ stop' = TRUE
    /\ sig' = "grace"
    /\ UNCHANGED <<cvars, tvars, wvars>>
    /\ UNCHANGED <<finalizedHead, loopWrites, envDryRun, inFlight, pc, ticks,
                   skips, finalized, currentUp, gotFin, gotUp, thrown, attempts, exitCode>>

\* ... await api.disconnect(); process.exit(0)
SigintExit ==
    /\ sig = "grace"
    /\ sig' = "exited"
    /\ exitCode' = 0
    /\ UNCHANGED <<cvars, tvars, wvars>>
    /\ UNCHANGED <<finalizedHead, loopWrites, envDryRun, inFlight, stop, pc,
                   ticks, skips, finalized, currentUp, gotFin, gotUp, thrown,
                   attempts>>

\* main has validated the pallet and is about to enter the loop.
AdvInit ==
    /\ TrackerInit
    /\ secureUpTo \in RawValues
    /\ finalizedHead \in Blocks
    /\ loopWrites = 0
    /\ envDryRun \in EnvValues
    /\ inFlight = FALSE
    /\ stop = FALSE
    /\ pc = "loopTop"
    /\ ticks = 0
    /\ skips = 0
    /\ finalized = None
    /\ currentUp = NaN
    /\ gotFin = FALSE
    /\ gotUp = FALSE
    /\ thrown = FALSE
    /\ attempts = <<>>
    /\ sig = "none"
    /\ exitCode = None

AdvNext ==
    \/ LoopTop
    \/ ReadFinalized
    \/ ReadSecureUpTo
    \/ ReadRejects
    \/ TickDecide
    \/ SignAndSendResolves
    \/ SignAndSendRejects
    \/ SudoStatus
    \/ SudoResolvedResume
    \/ VerifyRead
    \/ TickCatch
    \/ CooldownDone
    \/ IntervalDone
    \/ ChainFinalize
    \/ Sigint
    \/ SigintExit

AdvSpec == AdvInit /\ [][AdvNext]_vars

\* Timers fire and the continuations of settled promises run.
AdvFairSpec ==
    /\ AdvSpec
    /\ WF_vars(LoopTop)
    /\ WF_vars(TickCatch)
    /\ WF_vars(CooldownDone)
    /\ WF_vars(IntervalDone)

\* The SIGINT handler's timer fires and api.disconnect() settles.
AdvStopSpec ==
    /\ AdvFairSpec
    /\ WF_vars(SigintExit)

\* ---------------------------------------------------------- Scenario A
\* The finalized heights read on five successive ticks, the watermark
\* starting at the first of them; only the loop's own calls change the
\* watermark, no read fails and the loop is not stopped.
SamplesA == <<10, 10, 11, 11, 12>>

LoopTopScenarioA == LoopTopUpTo(Len(SamplesA))

ReadFinalizedScenarioA == ReadFinalizedAt(SamplesA[ticks])

ScenarioAInit ==
    /\ TrackerInit
    /\ secureUpTo = U32(SamplesA[1])
    /\ finalizedHead = SamplesA[1]
    /\ loopWrites = 0
    /\ envDryRun = "unset"
    /\ inFlight = FALSE
    /\ stop = FALSE
    /\ pc = "loopTop"
    /\ ticks = 0
    /\ skips = 0
    /\ finalized = None
    /\ currentUp = NaN
    /\ gotFin = FALSE
    /\ gotUp = FALSE
    /\ thrown = FALSE
    /\ attempts = <<>>
    /\ sig = "none"
    /\ exitCode = None

ScenarioANext ==
    \/ LoopTopScenarioA
    \/ ReadFinalizedScenarioA
    \/ ReadSecureUpTo
    \/ TickDecide
    \/ SignAndSendResolves
    \/ SignAndSendRejects
    \/ SudoStatus
    \/ SudoResolvedResume
    \/ VerifyRead
    \/ TickCatch
    \/ CooldownDone
    \/ IntervalDone

ScenarioASpec == ScenarioAInit /\ [][ScenarioANext]_vars

\* ----------------------------------------------------- secure-tx-test.mjs
\* The transaction script: validate the chain's API, submit a transfer with
\* signAndSend, exit 1 on a dispatch failure, otherwise wait for the watermark
\* to reach the inclusion block and exit 0.  Its waitForSecureUpTo is the
\* library's code with two log lines added, and runs the same steps.

\* The variables of the advance loop, which this script does not have.
loopvars == <<finalizedHead, loopWrites, envDryRun, inFlight, stop, pc, ticks,
              skips, finalized, currentUp, gotFin, gotUp, thrown, attempts,
              sig>>

\* events?.some(({event}) =>
\*     event.section === "system" && event.method === "ExtrinsicFailed")
TxFailed(events) ==
    events.defined
    /\ \E e \in events.list : e.section = "system" /\ e.method = "ExtrinsicFailed"

Running == exitCode = None

\* main up to the submission: the storage entry is looked up (exit 1 when it
\* is missing); with WATCH_ONLY_TARGET_BLOCK set the script only waits for
\* that block; otherwise the transfer call is looked up (exit 1 when the
\* chain has none).  TO has a default, so the `!TO` exit is never taken.
TxValidate ==
    /\ Running
    /\ hPc = "startup"
    /\ \E hasStorage \in BOOLEAN, hasTransfer \in BOOLEAN, watchOnly \in BOOLEAN :
          IF ~hasStorage
            THEN /\ hPc' = "noStorage"
                 /\ exitCode' = 1
                 /\ UNCHANGED <<targetBlock, wPc, wFuture>>
            ELSE IF watchOnly
              THEN /\ hPc' = "watchAwait"
                   /\ \E t \in Blocks : targetBlock' = t
                   /\ wPc' = "subscribing"
                   /\ wFuture' = "pending"
                   /\ UNCHANGED exitCode
              ELSE IF ~hasTransfer
                THEN /\ hPc' = "noTransfer"
                     /\ exitCode' = 1
                     /\ UNCHANGED <<targetBlock, wPc, wFuture>>
                ELSE /\ hPc' = "validated"
                     /\ UNCHANGED <<targetBlock, wPc, wFuture, exitCode>>
    /\ UNCHANGED <<cvars, loopvars>>
    /\ UNCHANGED <<txStage, txSubscribed, unsubCalled, finEvents, finHeaderNo,
                   includedAt, emitted, wSub, wQueue, wSeen, unsubAfterWait>>

\* `const unsub = await tx.signAndSend(sender, callback)` resolves.
TxSubmit ==
    /\ Running
    /\ hPc = "validated"
    /\ hPc' = "idle"
    /\ txSubscribed' = TRUE
    /\ UNCHANGED <<cvars, wvars, avars>>
    /\ UNCHANGED <<txStage, unsubCalled, finEvents, finHeaderNo, includedAt,
                   emitted>>

\* signAndSend throws, or the watch-only wait rejects: main's promise
\* rejects and main().catch calls process.exit(1).
TxMainThrows ==
    /\ Running
    /\ \/ hPc = "validated"
       \/ hPc = "watchAwait" /\ wFuture = "rejected"
    /\ hPc' = "mainThrew"
    /\ exitCode' = 1
    /\ UNCHANGED <<cvars, wvars, loopvars>>
    /\ UNCHANGED <<txStage, txSubscribed, unsubCalled, finEvents, finHeaderNo,
                   includedAt, emitted>>

\* Watch-only: the wait has resolved; disconnect and return from main, and
\* the process ends with code 0.
TxWatchResumes ==
    /\ Running
    /\ hPc = "watchAwait"
    /\ wFuture = "resolved"
    /\ hPc' = "watchDone"
    /\ exitCode' = 0
    /\ UNCHANGED <<cvars, wvars, loopvars>>
    /\ UNCHANGED <<txStage, txSubscribed, unsubCalled, finEvents, finHeaderNo,
                   includedAt, emitted>>

\* The signAndSend callback runs with the next status.  Ready, Broadcast
\* and InBlock are logged.  On Finalized (the last status of the stream):
\* when the events hold system.ExtrinsicFailed the error is decoded and
\* logged, unsub() is called and `await api.disconnect()` begins; otherwise
\* `await api.rpc.chain.getHeader(...)` begins.
TxStatus ==
    /\ Running
    /\ txSubscribed
    /\ \E i \in (txStage + 1)..Len(Stages) :
          /\ txStage' = i
          /\ IF Stages[i] = "Finalized"
                THEN /\ \E ev \in EventFields :
                          /\ finEvents' = ev
                          /\ hPc' = IF TxFailed(ev) THEN "failed" ELSE "getHeader"
                          /\ unsubCalled' = TxFailed(ev)
                     /\ \E b \in Blocks : finHeaderNo' = b
                     /\ txSubscribed' = FALSE
                ELSE UNCHANGED <<finEvents, finHeaderNo, txSubscribed, hPc,
                                 unsubCalled>>
    /\ UNCHANGED <<cvars, wvars, avars>>
    /\ UNCHANGED <<includedAt, emitted>>

\* The failure branch: api.disconnect() has settled; process.exit(1).
TxFailExitMutZero ==
    /\ Running
    /\ hPc = "failed"
    /\ exitCode' = 0
    /\ UNCHANGED <<cvars, tvars, wvars, loopvars>>

TxFailExit ==
    /\ Running
    /\ hPc = "failed"
    /\ exitCode' = 1
    /\ UNCHANGED <<cvars, tvars, wvars, loopvars>>

\* getHeader resolves: includedAtFinalizedBlock is set, unsub() is called
\* and waitForSecureUpTo(includedAtFinalizedBlock) is called, whose executor
\* subscribes at once.
TxGetHeaderReturns ==
    /\ Running
    /\ hPc = "getHeader"
    /\ includedAt' = HeaderNumber([number |-> finHeaderNo])
    /\ unsubCalled' = TRUE
    /\ targetBlock' = includedAt'
    /\ wPc' = "subscribing"
    /\ wFuture' = "pending"
    /\ hPc' = "awaitSecure"
    /\ UNCHANGED <<cvars, avars>>
    /\ UNCHANGED <<txStage, txSubscribed, finEvents, finHeaderNo, emitted, wSub,
                   wQueue, wSeen, unsubAfterWait>>

\* getHeader rejects, or the wait rejects: the callback's promise rejects
\* with nothing in the script to catch it.  Whether that rejection ends the
\* process (with code 1) is up to the runtime.
TxCallbackRejects ==
    /\ Running
    /\ \/ hPc = "getHeader"
       \/ hPc = "awaitSecure" /\ wFuture = "rejected"
    /\ hPc' = "rejected"
    /\ \E c \in {None, 1} : exitCode' = c
    /\ UNCHANGED <<cvars, wvars, loopvars>>
    /\ UNCHANGED <<txStage, txSubscribed, unsubCalled, finEvents, finHeaderNo,
                   includedAt, emitted>>

\* `await waitForSecureUpTo(...)` resumes: sleep(50), api.disconnect().
TxWaitResumes ==
    /\ Running
    /\ hPc = "awaitSecure"
    /\ wFuture = "resolved"
    /\ hPc' = "closing"
    /\ UNCHANGED <<cvars, wvars, avars>>
    /\ UNCHANGED <<txStage, txSubscribed, unsubCalled, finEvents, finHeaderNo,
                   includedAt, emitted>>

\* process.exit(0)
TxExitSuccess ==
    /\ Running
    /\ hPc = "closing"
    /\ exitCode' = 0
    /\ UNCHANGED <<cvars, tvars, wvars, loopvars>>

\* The script has connected; nothing is validated or submitted yet.
TxInit ==
    /\ AdvancerIdle
    /\ secureUpTo \in RawValues
    /\ changes = 0
    /\ txStage = 0
    /\ txSubscribed = FALSE
    /\ unsubCalled = FALSE
    /\ finEvents = NoEvents
    /\ finHeaderNo = None
    /\ hPc = "startup"
    /\ includedAt = None
    /\ emitted = <<>>
    /\ wPc = "idle"
    /\ targetBlock = None
    /\ wSub = FALSE
    /\ wQueue = <<>>
    /\ wSeen = <<>>
    /\ wFuture = "none"
    /\ unsubAfterWait = FALSE

TxNext ==
    \/ TxValidate
    \/ TxSubmit
    \/ TxMainThrows
    \/ TxWatchResumes
    \/ TxStatus
    \/ TxFailExit
    \/ TxGetHeaderReturns
    \/ TxCallbackRejects
    \/ TxWaitResumes
    \/ TxExitSuccess
    \/ WatermarkChange
    \/ SubscribeEstablished
    \/ SubscribeThrows
    \/ SecureUpToNotify

TxSpec == TxInit /\ [][TxNext]_vars

\* Timers fire, api.disconnect() settles and the continuations of settled
\* promises run.
TxFairSpec ==
    /\ TxSpec
    /\ WF_vars(TxFailExit)
    /\ WF_vars(TxWaitResumes)
    /\ WF_vars(TxExitSuccess)

\* --------------------------------------------- properties: the advance loop

\* The calls of sendSudoAdvance whose promise has not settled.
Outstanding == {i \in DOMAIN attempts : attempts[i].outcome = "pending"}

Targets == [i \in DOMAIN attempts |-> attempts[i].target]

\* C5: at most one sendSudoAdvance call is outstanding; while one is, it is
\* the latest call and the loop is suspended on it (no tick runs, no further
\* call is issued).
C5_SingleFlight ==
    /\ Cardinality(Outstanding) <= 1
    /\ Outstanding # {} => (Outstanding = {Len(attempts)} /\ pc = "awaitSudo")

C5_Witness ==
    /\ Len(attempts) >= 2
    /\ Outstanding = {Len(attempts)}
    /\ attempts[1].outcome = "resolved"

\* C6: a step that issues a sendSudoAdvance call is taken only when the two
\* values read in that tick satisfy finalized > currentUp.
C6_CallOnlyWhenBehind ==
    [][Len(attempts') > Len(attempts)
         => /\ gotFin /\ gotUp
            /\ ~currentUp.nan
            /\ finalized > currentUp.n
            /\ finalized' = finalized /\ currentUp' = currentUp]_vars

\* A tick that read finalized = currentUp has completed without a call.
C6_Witness ==
    /\ envDryRun # "1"
    /\ ticks = 1
    /\ pc = "interval"
    /\ gotFin /\ gotUp
    /\ ~currentUp.nan /\ finalized = currentUp.n
    /\ attempts = <<>>

\* C7: with DRY_RUN=1 no sendSudoAdvance call is ever made and the watermark
\* never changes.
C7_DryRunSubmitsNothing ==
    /\ [](envDryRun = "1" => (attempts = <<>> /\ loopWrites = 0))
    /\ [][envDryRun = "1" => secureUpTo' = secureUpTo]_vars

\* Two dry-run ticks have run, the last one lagging.
C7_Witness ==
    /\ envDryRun = "1"
    /\ ticks >= 2
    /\ pc = "interval"
    /\ gotFin /\ gotUp
    /\ ~currentUp.nan /\ finalized > currentUp.n

\* Scenario A has run its five ticks.
ScenarioADone ==
    /\ ticks = Len(SamplesA)
    /\ pc \in {"interval", "loopTop"}

\* C8 (as stated): after the five ticks exactly one call has been issued, and
\* it targets 12.
C8_Original ==
    ScenarioADone => Targets = <<SamplesA[5]>>

\* C8 (amended): every call targets the sample of the tick that issued it; no
\* call is issued on ticks 1 and 2; the first call is issued on tick 3 and
\* targets 11; after the five ticks the last call is the one of tick 5,
\* targeting 12, and two or three calls have been issued: exactly the two
\* calls 11, 12 when the first one set the watermark.
C8_CallPerLaggingTick ==
    /\ \A i \in DOMAIN attempts :
          /\ attempts[i].tick >= 3
          /\ attempts[i].target = SamplesA[attempts[i].tick]
    /\ (ticks > 3 \/ (ticks = 3 /\ pc # "reading"))
          => /\ attempts # <<>>
             /\ attempts[1].tick = 3
             /\ attempts[1].target = 11
    /\ ScenarioADone
          => /\ Len(attempts) \in {2, 3}
             /\ LastAttempt.tick = 5
             /\ LastAttempt.target = 12
             /\ attempts[1].dispatch = "ok" => Targets = <<11, 12>>

C8_Witness ==
    /\ ScenarioADone
    /\ Targets = <<11, 12>>
    /\ secureUpTo = U32(12)

\* C9: a rejected advancement call or a rejected read is caught by the tick
\* (the loop goes to its cooldown sleep, from there to its interval sleep),
\* and afterwards a further tick starts unless the loop has been stopped.
C9_FailureNotFatal ==
    /\ \A k \in 0..(MaxTicks - 1) :
          (TickFailed /\ ticks = k) ~> (ticks > k \/ stop)
    /\ [][(TickFailed /\ ~TickFailed') => pc' = "cooldown"]_vars
    /\ [][(pc = "cooldown" /\ pc' # pc) => pc' = "interval"]_vars
    /\ [][(pc = "interval" /\ pc' # pc) => pc' = "loopTop"]_vars

\* A tick has started after the tick before it caught a rejected call.
C9_Witness ==
    /\ ~stop
    /\ pc = "reading"
    /\ ticks = 2
    /\ Len(attempts) = 1
    /\ attempts[1].outcome = "rejected"
    /\ attempts[1].tick = 1

\* ------------------------------------- properties: failure and cancellation

\* The last invocation of the user callback.
LastEmitted == emitted[Len(emitted)]

\* The Finalized notification carrying system.ExtrinsicFailed was delivered.
FinalizedFailed == txStage = Len(Stages) /\ HasFailureMarker(finEvents)

WaitEnded == wFuture \in {"resolved", "rejected"}

\* C12: once the waiter's future is resolved or rejected its secureUpTo
\* subscription is not active and no notification is pending for it; the step
\* that resolves the future is the step that ends the subscription.
C12_NoSubscriptionAfterWait ==
    /\ [](WaitEnded => (~wSub /\ wQueue = <<>>))
    /\ [][(wFuture = "pending" /\ wFuture' = "resolved") => (wSub /\ ~wSub')]_vars

\* The watermark has changed after the future was resolved and the waiter
\* was not notified.
C12_Witness ==
    /\ wFuture = "resolved"
    /\ ~wSub
    /\ changes = 1
    /\ Len(wSeen) = 1
    /\ wSeen[1] # secureUpTo
    /\ wQueue = <<>>


C14_SubscribeFailureRejects ==
    /\ [](wPc = "failed"
            => /\ wFuture = "rejected"
               /\ ~wSub
               /\ SecureIdx = {}
               /\ ~FinalizedFailed
               /\ hPc \in {"awaitSecure", "rejected"})
    /\ [](FinalizedFailed => (wFuture = "none" /\ hPc # "rejected"))
    /\ [][wFuture = "rejected" => wFuture' = "rejected"]_vars

\* The subscription failed, the wrapper has thrown, and the watermark has
\* since been moved to the inclusion block or beyond.
C14_Witness ==
    /\ wPc = "failed"
    /\ hPc = "rejected"
    /\ changes = 1
    /\ CarriesAtLeast(secureUpTo, targetBlock)


\* ------------------------------------- properties: the loop's termination

\* C15: once stop is set it stays set and no tick is started; the SIGINT
\* handler then ends the process (after its grace sleep and the disconnect),
\* whatever the tick in progress is doing, and nothing runs afterwards.
C15_StopTerminates ==
    /\ [][stop => (stop' /\ ticks' = ticks)]_vars
    /\ stop ~> (sig = "exited")
    /\ [][sig # "exited"]_vars

\* The process has exited while the tick in progress was still waiting for
\* its advancement call.
C15_Witness ==
    /\ stop
    /\ sig = "exited"
    /\ pc = "awaitSudo"
    /\ Outstanding # {}


\* -------------------------------------- properties: the transaction script

\* C16: the script exits with code 1 at once when startup validation fails
\* and eventually when the transaction is finalized with a dispatch failure;
\* a run that submitted a transaction exits with code 0 only after the wait
\* for its inclusion block has resolved, the transaction not having failed;
\* and an exit code, once set, is the run's only one.
C16_ExitCodes ==
    /\ [](hPc \in {"noStorage", "noTransfer"} => exitCode = 1)
    /\ (txStage = Len(Stages) /\ HasFailureMarker(finEvents)) ~> (exitCode = 1)
    /\ []((txStage = Len(Stages) /\ HasFailureMarker(finEvents)) => exitCode # 0)
    /\ []((exitCode = 0 /\ hPc # "watchDone")
            => /\ hPc = "closing"
               /\ txStage = Len(Stages)
               /\ ~HasFailureMarker(finEvents)
               /\ wFuture = "resolved"
               /\ targetBlock = finHeaderNo
               /\ \E i \in DOMAIN wSeen : CarriesAtLeast(wSeen[i], finHeaderNo))
    /\ [][exitCode # None => exitCode' = exitCode]_vars

\* The script has exited with code 0 after a wait that outlasted a watermark
\* below the inclusion block.
C16_Witness ==
    /\ exitCode = 0
    /\ hPc = "closing"
    /\ Len(wSeen) = 2
    /\ ~CarriesAtLeast(wSeen[1], finHeaderNo)


\* ------------------------------------------ properties: ticks and attempts

\* C17: the calls are issued by distinct ticks, in order; the step that
\* issues a call gives it the finalized height read in the running tick; and
\* a tick that issued a call ends (reaches its interval sleep, or lets a
\* later tick start) only after the call was settled on its Finalized
\* notification or was rejected at submission.
C17_OneCallPerTick ==
    /\ [](\A i, j \in DOMAIN attempts : i < j => attempts[i].tick < attempts[j].tick)
    /\ [][Len(attempts') > Len(attempts)
            => /\ gotFin
               /\ attempts' = Append(attempts, Attempt(finalized, ticks))]_vars
    /\ [](\A i \in DOMAIN attempts :
             (attempts[i].tick < ticks \/ pc \in {"interval", "loopTop", "verify"})
                => \/ attempts[i].outcome = "rejected"
                   \/ /\ attempts[i].outcome = "resolved"
                      /\ Stages[attempts[i].stage] = "Finalized")

\* Two ticks have each issued a call, for different heights, and the second
\* tick has ended.
C17_Witness ==
    /\ Len(attempts) = 2
    /\ attempts[1].target < attempts[2].target
    /\ attempts[2].outcome = "resolved"
    /\ pc = "interval"


\* ------------------------------------------ properties: the order of stages

\* The position of a status among the stages.
StageIdx(status) == CHOOSE k \in DOMAIN Stages : Stages[k] = status

\* C18: the statuses the user callback is invoked with are strictly forward
\* (Ready before Broadcast before InBlock before Finalized) and none is
\* repeated; the SecureFinalized invocation comes after the Finalized one.
C18_StrictlyForward ==
    /\ \A i, j \in DOMAIN emitted :
          i < j => StageIdx(emitted[i].status) < StageIdx(emitted[j].status)
    /\ \A j \in SecureIdx :
          \E i \in 1..(j - 1) : emitted[i] = Result("Finalized", FALSE, None)


\* -------------------------------------- properties: one advancement attempt

\* The status an attempt's callback was last called with is Finalized.
AtFinalized(a) == a.stage = Len(Stages)

\* C19: an attempt that has settled never changes again; it is resolved only
\* on a Finalized notification without system.ExtrinsicFailed, rejected only
\* on one with it or when signAndSend threw before any status; it is pending
\* and subscribed through Ready, Broadcast and InBlock; and a settled attempt
\* holds no subscription.
C19_SettlesOnceOnFinalized ==
    /\ [][\A i \in DOMAIN attempts :
             attempts[i].outcome # "pending" => attempts'[i] = attempts[i]]_vars
    /\ [](\A i \in DOMAIN attempts :
             LET a == attempts[i]
             IN /\ a.outcome = "resolved"
                    => AtFinalized(a) /\ a.dispatch # "failed"
                /\ a.outcome = "rejected"
                    => \/ a.stage = 0
                       \/ AtFinalized(a) /\ a.dispatch = "failed"
                /\ a.outcome = "pending" <=> (a.stage < Len(Stages) /\ a.sub # "closed")
                /\ a.stage \in 1..(Len(Stages) - 1) => a.sub = "watching")

\* One attempt was rejected on its Finalized notification, a later one was
\* resolved on its own.
C19_Witness ==
    /\ Len(attempts) = 2
    /\ attempts[1].outcome = "rejected"
    /\ AtFinalized(attempts[1])
    /\ attempts[2].outcome = "resolved"


\* ------------------------------------------ properties: the inFlight flag

\* The loop is inside the try or the catch block of an iteration.
InTickBody == pc \in {"reading", "awaitSudo", "verify", "cooldown"}

\* C20: inFlight is true exactly while the loop is inside a tick's body; it
\* is false whenever the loop is at the top of an iteration; and the
\* `if (inFlight)` branch has never been taken.
C20_SkipBranchUnreached ==
    /\ inFlight <=> InTickBody
    /\ pc = "loopTop" => ~inFlight
    /\ skips = 0

\* The loop is at the top of its third iteration, after two ticks that each
\* issued a call.
C20_Witness ==
    /\ pc = "loopTop"
    /\ ticks = 2
    /\ Len(attempts) = 2
    /\ ~inFlight
    /\ ~stop


=============================================================================
